---- MODULE Spec2Model ----
(***************************************************************************)
(* Model of the command execution and streaming subsystem of              *)
(* src-tauri/src/lib.rs: run_command_with_events spawns a child process,   *)
(* drains its stdout and stderr on two threads, forwards every line to the *)
(* window as a CliOutputEvent, accumulates the lines per stream, waits for *)
(* the child, joins the threads and builds the outcome.                    *)
(*                                                                         *)
(* Text is a sequence of one-character strings.  A pipe holds whole raw    *)
(* lines (the bytes up to, not including, the terminating "\n").  A pipe   *)
(* reaches end-of-input when its last write end is closed, which the       *)
(* child may do before it exits and a descendant that inherited the        *)
(* stream may do long after.                                               *)
(***************************************************************************)
EXTENDS Integers, Sequences, FiniteSets, TLC

\* ------------------------------------------------------------------ bounds
\* Longest program of the child, in written lines.
MaxWrites == 2
\* Capacity of each pipe, in lines.
PipeCap == 1

\* --------------------------------------------------------------- alphabet
LF == "\n"
CR == "\r"
\* A byte that is not valid UTF-8 (0xFF).
BAD == "0xFF"

Streams == {"stdout", "stderr"}

\* The raw lines a child may write: empty, plain, "\r\n"-terminated, malformed.
RawLines == { <<>>, <<"a">>, <<"b", CR>>, <<BAD>> }

Writes == [stream : Streams, raw : RawLines]

\* Every program of at most n writes.
Programs(n) == UNION { [1..k -> Writes] : k \in 0..n }

\* The two call sites of run_command_with_events.
Calls ==
  { [operation |-> "install", command |-> "npm"],
    [operation |-> "init", command |-> "openspec"] }

\* std::process::ExitStatus: a normal exit with a code, or death by signal.
ExitStatuses ==
  { [kind |-> "exited", code |-> c] : c \in {0, 1, 2} }
    \cup { [kind |-> "signaled", code |-> 9] }

NoStatus == [kind |-> "none", code |-> 0]
NoResult == [kind |-> "none"]

\* ------------------------------------------------------------------ state
VARIABLES
  call,      \* operation label and executable of this invocation
  prog,      \* what the child and its descendants write, in order
  ip,        \* index of the next write
  childpc,   \* "none", "running", "exited"
  exitStatus, \* the child's exit status, once exited
  status,    \* the caller's local `status`: what child.wait() returned
  pipe,      \* per stream: raw lines written and not yet read
  closed,    \* per stream: every write end of the pipe is closed
  drain,     \* per stream: position of the drain thread
  line,      \* per stream: the drain thread's local `line`
  stored,    \* per stream: stdout_lines / stderr_lines
  offered,   \* per stream: the events passed to window.emit, in order
  rejected,  \* some emit returned Err
  pc,        \* position of the caller of run_command_with_events
  joined,    \* per stream: the thread handle was joined
  result,    \* the value returned
  req,       \* the exposed operation or function called, with its inputs
  reply,     \* what the exposed operation or function answered
  probes     \* the one-shot processes spawned with .output(), in order

vars ==
  << call, prog, ip, childpc, exitStatus, status, pipe, closed, drain, line,
     stored, offered, rejected, pc, joined, result, req, reply, probes >>

\* The state of the exposed operations, which run_command_with_events
\* does not touch.
api == << req, reply, probes >>

NoReq == [op |-> "none"]
NoReply == [kind |-> "none"]

\* ------------------------------------------------------- pure text helpers
RECURSIVE Join(_, _)
\* [String]::join(sep)
Join(lines, sep) ==
  IF lines = <<>> THEN <<>>
  ELSE IF Len(lines) = 1 THEN lines[1]
  ELSE lines[1] \o <<sep>> \o Join(Tail(lines), sep)

\* Strip one trailing "\r", as BufRead::lines and str::lines do after "\n".
StripCR(s) ==
  IF s # <<>> /\ s[Len(s)] = CR THEN SubSeq(s, 1, Len(s) - 1) ELSE s

\* One item of BufReader::lines(): Err for a line that is not UTF-8, else the
\* line without its "\n" and without one "\r" before it.
DecodeLine(raw) ==
  IF \E i \in 1..Len(raw) : raw[i] = BAD
  THEN [ok |-> FALSE, text |-> <<>>]
  ELSE [ok |-> TRUE, text |-> StripCR(raw)]

RECURSIVE SplitInclusive(_, _)
\* str::split_inclusive("\n"): pieces ending in "\n", plus a non-empty rest.
SplitInclusive(text, acc) ==
  IF text = <<>> THEN (IF acc = <<>> THEN <<>> ELSE <<acc>>)
  ELSE IF Head(text) = LF THEN <<acc \o <<LF>>>> \o SplitInclusive(Tail(text), <<>>)
  ELSE SplitInclusive(Tail(text), Append(acc, Head(text)))

\* One line of str::lines(): the piece without "\n" and one "\r" before it.
StripEol(piece) ==
  IF piece # <<>> /\ piece[Len(piece)] = LF
  THEN StripCR(SubSeq(piece, 1, Len(piece) - 1))
  ELSE piece

\* str::lines()
Lines(text) ==
  LET pieces == SplitInclusive(text, <<>>)
  IN [i \in 1..Len(pieces) |-> StripEol(pieces[i])]

\* ---------------------------------------------------------- exit status
\* ExitStatus::code(): Some(code) or None, as a sequence of length <= 1.
Code(st) == IF st.kind = "exited" THEN <<st.code>> ELSE <<>>

\* ExitStatus::success()
Success(st) == st.kind = "exited" /\ st.code = 0

\* Variant: a missing exit code recorded as 0.
UnwrapOrZero(opt) == IF opt = <<>> THEN 0 ELSE opt[1]

\* Option::unwrap_or(-1)
UnwrapOrMinusOne(opt) == IF opt = <<>> THEN -1 ELSE opt[1]

\* Variant: any failure recorded as status 1.
StatusCodeCollapsed(st) == IF st.kind = "exited" /\ st.code = 0 THEN 0 ELSE 1

\* status.code().unwrap_or(-1)
StatusCode(st) == UnwrapOrMinusOne(Code(st))

\* ------------------------------------------------------------- histories
RECURSIVE WrittenTo(_, _)
\* The raw lines among the writes ws that went to stream s, in order.
WrittenTo(ws, s) ==
  IF ws = <<>> THEN <<>>
  ELSE IF Head(ws).stream = s THEN <<Head(ws).raw>> \o WrittenTo(Tail(ws), s)
  ELSE WrittenTo(Tail(ws), s)

\* What the child has written to s so far.
Written(s) == WrittenTo(SubSeq(prog, 1, ip - 1), s)

\* What the child has written to s and the drain has taken out of the pipe.
Consumed(s) == SubSeq(Written(s), 1, Len(Written(s)) - Len(pipe[s]))

RECURSIVE Decoded(_)
\* The Ok items of lines() over the raw lines, i.e. lines().flatten().
Decoded(raws) ==
  IF raws = <<>> THEN <<>>
  ELSE LET d == DecodeLine(Head(raws))
       IN (IF d.ok THEN <<d.text>> ELSE <<>>) \o Decoded(Tail(raws))

\* ------------------------------------------------------------------- Init
\* The state at the entry of run_command_with_events, for a child whose
\* program is one of programs.
Entry(programs) ==
  /\ call \in Calls
  /\ prog \in programs
  /\ ip = 1
  /\ childpc = "none"
  /\ exitStatus = NoStatus
  /\ status = NoStatus
  /\ pipe = [s \in Streams |-> <<>>]
  /\ closed = [s \in Streams |-> FALSE]
  /\ drain = [s \in Streams |-> "none"]
  /\ line = [s \in Streams |-> <<>>]
  /\ stored = [s \in Streams |-> <<>>]
  /\ offered = [s \in Streams |-> <<>>]
  /\ rejected = FALSE
  /\ pc = "spawn"
  /\ joined = [s \in Streams |-> FALSE]
  /\ result = NoResult
  /\ req = NoReq
  /\ reply = NoReply
  /\ probes = <<>>

Init == Entry(Programs(MaxWrites))

\* ------------------------------------------------------------- the caller
SpawnResults == {"ok", "not_found", "other"}

\* Variant: every not-found failure blamed on the package manager.
SpawnErrorIgnoresCommand(kind, command) ==
  IF kind = "not_found" THEN [kind |-> "PackageManagerUnavailable"]
  ELSE [kind |-> "Io"]

\* The map_err closure of spawn().
SpawnError(kind, command) ==
  IF kind = "not_found"
  THEN (IF command = "openspec"
        THEN [kind |-> "CliUnavailable"]
        ELSE [kind |-> "PackageManagerUnavailable"])
  ELSE [kind |-> "Io"]

\* Command::spawn with both streams piped, the two buffers, the two threads.
\* With Stdio::piped() the two take() calls always yield the handles.
Spawn ==
  /\ pc = "spawn"
  /\ \E r \in SpawnResults :
       IF r = "ok"
       THEN /\ childpc' = "running"
            /\ drain' = [s \in Streams |-> "read"]
            /\ pc' = "wait"
            /\ UNCHANGED result
       ELSE /\ result' = SpawnError(r, call.command)
            /\ pc' = "returned"
            /\ UNCHANGED << childpc, drain >>
  /\ UNCHANGED << call, prog, ip, exitStatus, status, pipe, line, stored, offered,
                  rejected, joined >>
  /\ UNCHANGED << closed, api >>

\* Variant: the buffers are read right after the wait, the joins skipped.
AfterWaitSkipsJoins == "collect"

\* Where the caller goes once child.wait() has returned Ok.
AfterWait == "join_stdout"

\* child.wait(): blocks until the child has exited, then returns its status,
\* or Err when the OS cannot deliver it (the `?` returns Io, joining nothing).
Wait ==
  /\ pc = "wait"
  /\ childpc = "exited"
  /\ \E ok \in BOOLEAN :
       IF ok
       THEN /\ status' = exitStatus
            /\ pc' = AfterWait
            /\ UNCHANGED result
       ELSE /\ result' = [kind |-> "Io"]
            /\ pc' = "returned"
            /\ UNCHANGED status
  /\ UNCHANGED << call, prog, ip, childpc, exitStatus, pipe, drain, line, stored,
                  offered, rejected, joined >>
  /\ UNCHANGED << closed, api >>

\* Variant: join returns without waiting for the thread to finish.
JoinReadyAlways(s) == TRUE

\* JoinHandle::join blocks until the thread's closure has returned.
JoinReady(s) == drain[s] = "done"

\* stdout_handle.join()
JoinStdout ==
  /\ pc = "join_stdout"
  /\ JoinReady("stdout")
  /\ joined' = [joined EXCEPT !["stdout"] = TRUE]
  /\ pc' = "join_stderr"
  /\ UNCHANGED << call, prog, ip, childpc, exitStatus, status, pipe, drain, line, stored,
                  offered, rejected, result >>
  /\ UNCHANGED << closed, api >>

\* stderr_handle.join()
JoinStderr ==
  /\ pc = "join_stderr"
  /\ JoinReady("stderr")
  /\ joined' = [joined EXCEPT !["stderr"] = TRUE]
  /\ pc' = "collect"
  /\ UNCHANGED << call, prog, ip, childpc, exitStatus, status, pipe, drain, line, stored,
                  offered, rejected, result >>
  /\ UNCHANGED << closed, api >>

\* The value built from the exit status and the two accumulated texts.
Outcome(st, command, out, err) ==
  IF Success(st)
  THEN [kind |-> "Ok", status |-> StatusCode(st), stdout |-> out, stderr |-> err]
  ELSE [kind |-> "CommandFailed", command |-> command,
        status |-> StatusCode(st), stderr |-> err]

\* Lock both buffers, join their lines with "\n", build the outcome, return.
Collect ==
  /\ pc = "collect"
  /\ result' = Outcome(status, call.command,
                       Join(stored["stdout"], LF), Join(stored["stderr"], LF))
  /\ pc' = "returned"
  /\ UNCHANGED << call, prog, ip, childpc, exitStatus, status, pipe, drain, line, stored,
                  offered, rejected, joined >>
  /\ UNCHANGED << closed, api >>

\* ------------------------------------------- the child and its descendants
\* The next line is written, by the child or by a descendant that inherited
\* the stream; the writer blocks while that pipe is full.
ChildWrite ==
  /\ childpc # "none"
  /\ ip <= Len(prog)
  /\ ~closed[prog[ip].stream]
  /\ Len(pipe[prog[ip].stream]) < PipeCap
  /\ pipe' = [pipe EXCEPT ![prog[ip].stream] = Append(@, prog[ip].raw)]
  /\ ip' = ip + 1
  /\ UNCHANGED << call, prog, childpc, exitStatus, status, closed, drain, line, stored,
                  offered, rejected, pc, joined, result >>
  /\ UNCHANGED api

\* The child exits; the writes still to come are those of its descendants.
ChildExit ==
  /\ childpc = "running"
  /\ \E st \in ExitStatuses : exitStatus' = st
  /\ childpc' = "exited"
  /\ UNCHANGED << call, prog, ip, status, pipe, closed, drain, line, stored, offered,
                  rejected, pc, joined, result >>
  /\ UNCHANGED api

\* No write to s is still to come.
WritesDone(s) == \A i \in ip..Len(prog) : prog[i].stream # s

\* The last write end of the pipe of s is closed: by the child, while it
\* runs or as it exits, or by the last descendant holding it.
CloseStream(s) ==
  /\ childpc # "none"
  /\ ~closed[s]
  /\ WritesDone(s)
  /\ closed' = [closed EXCEPT ![s] = TRUE]
  /\ UNCHANGED << call, prog, ip, childpc, exitStatus, status, pipe, drain, line, stored,
                  offered, rejected, pc, joined, result >>
  /\ UNCHANGED api

\* ------------------------------------------------------- the drain threads
\* Variant: stderr is drained only once the stdout drain has finished.
DrainRunnableSequential(s) ==
  /\ drain[s] \in {"read", "emit"}
  /\ (s = "stderr" => drain["stdout"] = "done")

\* Both threads run from the moment they are spawned until end-of-input.
DrainRunnable(s) == drain[s] \in {"read", "emit"}

\* Variant: the line is put at the front of the buffer.
PushFront(buf, text) == <<text>> \o buf

\* stored.push(line.clone()) under the buffer's lock.
Push(buf, text) == Append(buf, text)

\* Variant: every event tagged "stdout".
EventAlwaysStdout(s, text) ==
  [operation |-> call.operation, stream |-> "stdout", line |-> text]

\* The CliOutputEvent built for a line of stream s.
Event(s, text) == [operation |-> call.operation, stream |-> s, line |-> text]

\* Variant: a rejected emit ends the drain loop.
AfterEmitStopsOnError(accepted) == IF accepted THEN "read" ELSE "done"

\* The thread's position after emit returned: its result is discarded.
AfterEmit(accepted) == "read"

\* The next item of reader.lines().flatten(): an Err item is skipped.
DrainRead(s) ==
  /\ DrainRunnable(s)
  /\ drain[s] = "read"
  /\ pipe[s] # <<>>
  /\ pipe' = [pipe EXCEPT ![s] = Tail(@)]
  /\ LET d == DecodeLine(Head(pipe[s]))
     IN IF d.ok
        THEN /\ stored' = [stored EXCEPT ![s] = Push(@, d.text)]
             /\ line' = [line EXCEPT ![s] = d.text]
             /\ drain' = [drain EXCEPT ![s] = "emit"]
        ELSE UNCHANGED << stored, line, drain >>
  /\ UNCHANGED << call, prog, ip, childpc, exitStatus, status, offered, rejected, pc,
                  joined, result >>
  /\ UNCHANGED << closed, api >>

\* window.emit("openspec://cli-output", event), accepted or not.
DrainEmit(s) ==
  /\ DrainRunnable(s)
  /\ drain[s] = "emit"
  /\ \E accepted \in BOOLEAN :
       /\ offered' = [offered EXCEPT ![s] = Append(@, Event(s, line[s]))]
       /\ rejected' = (rejected \/ ~accepted)
       /\ drain' = [drain EXCEPT ![s] = AfterEmit(accepted)]
  /\ line' = [line EXCEPT ![s] = <<>>]
  /\ UNCHANGED << call, prog, ip, childpc, exitStatus, status, pipe, stored, pc, joined,
                  result >>
  /\ UNCHANGED << closed, api >>

\* End-of-input: the pipe is empty and its last write end is closed.
DrainEof(s) ==
  /\ DrainRunnable(s)
  /\ drain[s] = "read"
  /\ pipe[s] = <<>>
  /\ closed[s]
  /\ drain' = [drain EXCEPT ![s] = "done"]
  /\ UNCHANGED << call, prog, ip, childpc, exitStatus, status, pipe, line, stored,
                  offered, rejected, pc, joined, result >>
  /\ UNCHANGED << closed, api >>

Drain(s) == DrainRead(s) \/ DrainEmit(s) \/ DrainEof(s)

\* ------------------------------------------------------------------- Spec
Caller == Spawn \/ Wait \/ JoinStdout \/ JoinStderr \/ Collect

Child == ChildWrite \/ ChildExit \/ \E s \in Streams : CloseStream(s)

Next ==
  \/ Spawn
  \/ Wait
  \/ JoinStdout
  \/ JoinStderr
  \/ Collect
  \/ ChildWrite
  \/ ChildExit
  \/ \E s \in Streams : CloseStream(s)
  \/ \E s \in Streams : DrainRead(s)
  \/ \E s \in Streams : DrainEmit(s)
  \/ \E s \in Streams : DrainEof(s)

Spec == Init /\ [][Next]_vars

\* The lines a drain thread treats differently: decodable and not.
FairLines == { <<"a">>, <<BAD>> }

FairPrograms(n) ==
  UNION { [1..k -> [stream : Streams, raw : FairLines]] : k \in 0..n }

FairInit == Entry(FairPrograms(MaxWrites))

\* The OS schedules the caller, each thread and each writer whenever they
\* can run, and the child and its descendants go on to exit: every write is
\* made, the child exits and every write end is closed.
FairSpec ==
  /\ FairInit
  /\ [][Next]_vars
  /\ WF_vars(Caller)
  /\ WF_vars(ChildWrite)
  /\ WF_vars(ChildExit)
  /\ \A s \in Streams : WF_vars(CloseStream(s))
  /\ \A s \in Streams : WF_vars(Drain(s))

\* ============================================== text of the pure functions
\* Bounds of the inputs of the pure functions.
\* Longest list of tool names given to build_tools_arg.
MaxTools == 2
\* Longest help text given to parse_openspec_tools, in tokens.
MaxTokens == 4

SP == " "
TAB == "\t"

\* char::is_whitespace, on the characters of the model.
IsWhitespace(c) == c \in {SP, TAB, LF, CR}

RECURSIVE TrimStart(_)
\* str::trim_start
TrimStart(s) ==
  IF s # <<>> /\ IsWhitespace(Head(s)) THEN TrimStart(Tail(s)) ELSE s

RECURSIVE TrimEnd(_)
\* str::trim_end
TrimEnd(s) ==
  IF s # <<>> /\ IsWhitespace(s[Len(s)])
  THEN TrimEnd(SubSeq(s, 1, Len(s) - 1))
  ELSE s

\* str::trim
Trim(s) == TrimEnd(TrimStart(s))

\* Iterator::filter(|s| !s.is_empty()) over a sequence of texts.
NonEmpty(texts) == SelectSeq(texts, LAMBDA x : x # <<>>)

\* The state run_command_with_events works on, the caller's position apart.
runstate ==
  << call, prog, ip, childpc, exitStatus, status, pipe, closed, drain, line,
     stored, offered, rejected, joined, result >>

NoCall == [operation |-> "none", command |-> "none"]

\* No streamed command is running.
Idle ==
  /\ call = NoCall
  /\ ip = 1
  /\ childpc = "none"
  /\ exitStatus = NoStatus
  /\ status = NoStatus
  /\ pipe = [s \in Streams |-> <<>>]
  /\ closed = [s \in Streams |-> FALSE]
  /\ drain = [s \in Streams |-> "none"]
  /\ line = [s \in Streams |-> <<>>]
  /\ stored = [s \in Streams |-> <<>>]
  /\ offered = [s \in Streams |-> <<>>]
  /\ rejected = FALSE
  /\ joined = [s \in Streams |-> FALSE]
  /\ result = NoResult

\* --------------------------------------------------------- build_tools_arg
ToolsModes == {"All", "Custom", "None"}

\* Tool names as a caller may send them: empty, blank, plain, padded.
ToolNames ==
  { <<>>, <<SP>>, <<TAB, SP>>, <<"a">>, <<SP, "b", SP>>, <<"c", SP, "d">> }

ToolLists(n) == UNION { [1..k -> ToolNames] : k \in 0..n }

\* Variant: the names are joined as given, neither trimmed nor filtered.
build_tools_arg_raw(mode, tools) ==
  IF mode = "All" THEN [kind |-> "Ok", value |-> <<"a", "l", "l">>]
  ELSE IF mode = "None" THEN [kind |-> "Ok", value |-> <<"n", "o", "n", "e">>]
  ELSE IF tools = <<>> THEN [kind |-> "MissingToolsSelection"]
  ELSE [kind |-> "Ok", value |-> Join(tools, ",")]

build_tools_arg(mode, tools) ==
  IF mode = "All" THEN [kind |-> "Ok", value |-> <<"a", "l", "l">>]
  ELSE IF mode = "None" THEN [kind |-> "Ok", value |-> <<"n", "o", "n", "e">>]
  ELSE LET selected == NonEmpty([i \in 1..Len(tools) |-> Trim(tools[i])])
       IN IF selected = <<>>
          THEN [kind |-> "MissingToolsSelection"]
          ELSE [kind |-> "Ok", value |-> Join(selected, ",")]

BuildToolsArgRequests ==
  [op : {"build_tools_arg"}, mode : ToolsModes, tools : ToolLists(MaxTools)]

BuildToolsArg ==
  /\ pc = "called"
  /\ req.op = "build_tools_arg"
  /\ reply' = build_tools_arg(req.mode, req.tools)
  /\ pc' = "replied"
  /\ UNCHANGED << runstate, req, probes >>

\* ----------------------------------------------------- parse_openspec_tools
MARKER == <<"l", "i", "s", "t", " ", "o", "f", ":">>
OPTIONS == <<"O", "p", "t", "i", "o", "n", "s", ":">>
USAGE == <<"U", "s", "a", "g", "e", ":">>

\* str::starts_with
StartsWith(s, p) == Len(s) >= Len(p) /\ SubSeq(s, 1, Len(p)) = p

RECURSIVE FindFrom(_, _, _)
FindFrom(s, p, i) ==
  IF i + Len(p) > Len(s) THEN <<>>
  ELSE IF SubSeq(s, i + 1, i + Len(p)) = p THEN <<i>>
  ELSE FindFrom(s, p, i + 1)

\* str::find: Some(offset of the first match) or None, as a sequence of
\* length <= 1.
Find(s, p) == FindFrom(s, p, 0)

RECURSIVE Split(_, _, _)
\* str::split(c): the pieces between the separators, empty pieces included.
Split(s, c, acc) ==
  IF s = <<>> THEN <<acc>>
  ELSE IF Head(s) = c THEN <<acc>> \o Split(Tail(s), c, <<>>)
  ELSE Split(Tail(s), c, Append(acc, Head(s)))

RECURSIVE TrimEndMatches(_, _)
\* str::trim_end_matches(c): every trailing c is removed.
TrimEndMatches(s, c) ==
  IF s # <<>> /\ s[Len(s)] = c
  THEN TrimEndMatches(SubSeq(s, 1, Len(s) - 1), c)
  ELSE s

\* Variant: only a blank line ends the list.
EndsListOnBlankOnly(trimmed) == trimmed = <<>>

\* The break condition of the peek loop.
EndsList(trimmed) ==
  \/ trimmed = <<>>
  \/ StartsWith(trimmed, <<"-">>)
  \/ StartsWith(trimmed, OPTIONS)
  \/ StartsWith(trimmed, USAGE)

RECURSIVE Continuation(_, _, _)
\* The peek loop: the trimmed lines from lines[i] on, up to the first that
\* ends the list.
Continuation(lines, i, segments) ==
  IF i > Len(lines) THEN segments
  ELSE LET trimmed == Trim(lines[i])
       IN IF EndsList(trimmed) THEN segments
          ELSE Continuation(lines, i + 1, Append(segments, trimmed))

\* The body of `if let Some(index) = line.find("list of:")` for lines[i].
ParseListAt(lines, i, index) ==
  LET list == Trim(SubSeq(lines[i], index + Len(MARKER) + 1, Len(lines[i])))
      segments == Continuation(lines, i + 1,
                               IF list # <<>> THEN <<list>> ELSE <<>>)
      combined == Join(segments, SP)
      entries == Split(combined, ",", <<>>)
      tools == NonEmpty([k \in 1..Len(entries) |->
                           TrimEndMatches(Trim(entries[k]), ".")])
  IN IF tools = <<>> THEN [kind |-> "ToolsParseFailed"]
     ELSE [kind |-> "Ok", value |-> tools]

RECURSIVE ParseFrom(_, _)
\* The outer `while let Some(line) = lines.next()` from lines[i] on.
ParseFrom(lines, i) ==
  IF i > Len(lines) THEN [kind |-> "ToolsParseFailed"]
  ELSE LET found == Find(lines[i], MARKER)
       IN IF found # <<>> THEN ParseListAt(lines, i, found[1])
          ELSE ParseFrom(lines, i + 1)

parse_openspec_tools(help_text) == ParseFrom(Lines(help_text), 1)

\* Pieces of help text the inputs are built from.
HelpTokens ==
  { MARKER, <<"a">>, <<",">>, <<".">>, <<SP>>, <<LF>>, <<"-">>, USAGE }

RECURSIVE Concat(_)
Concat(pieces) ==
  IF pieces = <<>> THEN <<>> ELSE Head(pieces) \o Concat(Tail(pieces))

\* The list a, b, c on one line and wrapped over two, with and without a
\* final period, in the layout of `openspec init --help`.
HelpOneLine == Concat(<< <<"o", "f", SP>>, MARKER, <<SP, "a", ",", SP, "b", ",", SP, "c">> >>)
HelpOneLineDot == HelpOneLine \o <<".">>
HelpWrapped ==
  Concat(<< OPTIONS, <<LF, SP>>, MARKER, <<SP, "a", ",", SP, "b", ",", LF>>,
            <<SP, SP, "c", CR, LF, SP, "-", "h", ",", SP, "x">> >>)
HelpWrappedDot ==
  Concat(<< OPTIONS, <<LF, SP>>, MARKER, <<SP, "a", ",", SP, "b", ",", LF>>,
            <<SP, SP, "c", ".", LF, TAB>>, OPTIONS, <<LF, "d">> >>)

HelpExamples == { HelpOneLine, HelpOneLineDot, HelpWrapped, HelpWrappedDot }

HelpTexts(n) ==
  { Concat(ts) : ts \in UNION { [1..k -> HelpTokens] : k \in 0..n } }
    \cup HelpExamples

ParseToolsRequests == [op : {"parse_openspec_tools"}, text : HelpTexts(MaxTokens)]

ParseOpenspecTools ==
  /\ pc = "called"
  /\ req.op = "parse_openspec_tools"
  /\ reply' = parse_openspec_tools(req.text)
  /\ pc' = "replied"
  /\ UNCHANGED << runstate, req, probes >>

\* ------------------------------------------------------ process output
\* U+FFFD, what from_utf8_lossy puts for an invalid byte.
REPLACEMENT == "U+FFFD"

\* String::from_utf8_lossy
FromUtf8Lossy(bytes) ==
  [i \in 1..Len(bytes) |-> IF bytes[i] = BAD THEN REPLACEMENT ELSE bytes[i]]

\* What Command::output() can give: Err, or the exit status with the bytes
\* the process wrote to stdout and stderr.
Outputs(outs, errs) ==
  { [kind |-> "spawn_failed"] }
    \cup [kind : {"output"}, status : ExitStatuses, stdout : outs, stderr : errs]

\* The record of one Command::output() call: the executable, and whether a
\* process was started.
OneShot(command, outcome) ==
  [command |-> command, started |-> outcome.kind # "spawn_failed"]

\* --------------------------------------------------- discover_project_info
SLASH == "/"
ROOT == <<SLASH, "r">>
SUB == <<SLASH, "r", SLASH, "s">>
OPENSPEC == <<"o", "p", "e", "n", "s", "p", "e", "c">>

\* Path::join with a relative component.
PathJoin(base, name) ==
  IF base = <<>> \/ base[Len(base)] = SLASH THEN base \o name
  ELSE base \o <<SLASH>> \o name

\* Path::components: the root, then the names between separators; empty
\* names and "." are dropped, except a "." that starts a relative path.
Components(path) ==
  LET parts == Split(path, SLASH, <<>>)
      absolute == path # <<>> /\ path[1] = SLASH
  IN (IF absolute THEN << <<SLASH>> >> ELSE <<>>)
       \o (IF ~absolute /\ parts[1] = <<".">> THEN << <<".">> >> ELSE <<>>)
       \o SelectSeq(parts, LAMBDA x : x # <<>> /\ x # <<".">>)

\* Path::file_name: the last component when it is a name, None when it is
\* the root, "." or ".."; as a sequence of length <= 1.
FileName(path) ==
  LET components == Components(path)
      last == components[Len(components)]
  IN IF components = <<>> \/ last \in { <<SLASH>>, <<".">>, <<".", ".">> }
     THEN <<>>
     ELSE <<last>>

FsKinds == {"missing", "file", "dir"}

FsPaths == { ROOT, SUB, PathJoin(ROOT, OPENSPEC), PathJoin(SUB, OPENSPEC) }

\* File trees: an entry exists only inside a directory.
FileSystems ==
  { fs \in [FsPaths -> FsKinds] :
      /\ fs[ROOT] # "dir"
           => fs[SUB] = "missing" /\ fs[PathJoin(ROOT, OPENSPEC)] = "missing"
      /\ fs[SUB] # "dir" => fs[PathJoin(SUB, OPENSPEC)] = "missing" }

\* What the file system has in the directory reached by the names, from the
\* root, which is a directory.
KindOfNames(fs, names) ==
  LET key == Concat([i \in 1..Len(names) |-> <<SLASH>> \o names[i]])
  IN IF names = <<>> THEN "dir"
     ELSE IF key \in DOMAIN fs THEN fs[key]
     ELSE "missing"

RECURSIVE Walk(_, _, _)
\* Path resolution by the OS, at names with parts still to follow: every
\* part, the empty one of a doubled or final "/" included, is looked up in a
\* directory; "." stays, ".." goes up, a name goes down.
Walk(fs, names, parts) ==
  IF parts = <<>> THEN KindOfNames(fs, names)
  ELSE IF KindOfNames(fs, names) # "dir" THEN "missing"
  ELSE IF Head(parts) \in { <<>>, <<".">> } THEN Walk(fs, names, Tail(parts))
  ELSE IF Head(parts) = <<".", ".">>
       THEN Walk(fs, SubSeq(names, 1, Len(names) - 1), Tail(parts))
  ELSE Walk(fs, Append(names, Head(parts)), Tail(parts))

\* What the file system has at a path (stat): "missing" when the path does
\* not resolve.  A relative path is resolved from the working directory,
\* here the root.
KindAt(fs, path) ==
  IF path = <<>> THEN "missing" ELSE Walk(fs, <<>>, Split(path, SLASH, <<>>))

\* The paths discovery is asked about: the two directories, other spellings
\* of them, and the marker of the root with a final "/".
DiscoverPaths ==
  { ROOT, SUB, ROOT \o <<SLASH>>, SUB \o <<SLASH, ".">>,
    <<SLASH, "r", SLASH, SLASH, "s">>, PathJoin(ROOT, OPENSPEC) \o <<SLASH>> }

\* What `git rev-parse --show-toplevel` may print.
GitStdouts ==
  { <<>>, <<LF>>, <<SP, CR, LF>>, ROOT \o <<LF>>, SUB \o <<LF>>,
    ROOT \o <<SLASH, ".", LF>> }

\* Variant: the marker directory is looked up under the queried path.
MarkerBaseQueried(path, repo_root) == path

\* The directory under which "openspec" is looked up.
MarkerBase(path, repo_root) == repo_root

discover_project_info(path, fs, git) ==
  IF KindAt(fs, path) = "missing" THEN [kind |-> "MissingPath"]
  ELSE IF KindAt(fs, path) # "dir" THEN [kind |-> "NotDirectory"]
  ELSE IF git.kind = "spawn_failed" THEN [kind |-> "GitUnavailable"]
  ELSE IF ~Success(git.status) THEN [kind |-> "NotGitWorkTree"]
  ELSE LET repo_root_str == Trim(FromUtf8Lossy(git.stdout))
           name == FileName(repo_root_str)
       IN IF repo_root_str = <<>> THEN [kind |-> "RepoRootUnavailable"]
          ELSE [kind |-> "Ok",
                repo_path |-> repo_root_str,
                repo_name |-> IF name # <<>> THEN name[1] ELSE repo_root_str,
                openspec_present |->
                  KindAt(fs, PathJoin(MarkerBase(path, repo_root_str), OPENSPEC)) = "dir"]

DiscoverRequests ==
  [op : {"discover_project_info"}, path : DiscoverPaths, fs : FileSystems,
   git : Outputs(GitStdouts, {<<>>})]

DiscoverProjectInfo ==
  /\ pc = "called"
  /\ req.op = "discover_project_info"
  /\ reply' = discover_project_info(req.path, req.fs, req.git)
  /\ pc' = "replied"
  /\ probes' = (IF KindAt(req.fs, req.path) = "dir"
                THEN Append(probes, OneShot("git", req.git))
                ELSE probes)
  /\ UNCHANGED << runstate, req >>

\* ---------------------------------------------------------- version probe
\* What `<command> --version` may print on either stream.
VersionTexts == { <<>>, <<SP, LF>>, <<"1", LF>>, <<SP, "2">> }

ProbeOutcomes == Outputs(VersionTexts, VersionTexts)

\* Variant: stderr is preferred to stdout.
VersionTextStderrFirst(stdout, stderr) ==
  IF stderr # <<>> THEN stderr ELSE IF stdout # <<>> THEN stdout ELSE <<>>

\* The version text chosen among the trimmed streams.
VersionText(stdout, stderr) ==
  IF stdout # <<>> THEN stdout ELSE IF stderr # <<>> THEN stderr ELSE <<>>

\* command_version on the outcome of `<command> --version`: Some(version) or
\* None, as a sequence of length <= 1.
command_version(outcome) ==
  IF outcome.kind = "spawn_failed" THEN <<>>
  ELSE IF ~Success(outcome.status) THEN <<>>
  ELSE << VersionText(Trim(FromUtf8Lossy(outcome.stdout)),
                      Trim(FromUtf8Lossy(outcome.stderr))) >>

package_manager_status(name, outcome) ==
  LET version == command_version(outcome)
  IN [name |-> name, installed |-> version # <<>>, version |-> version]

openspec_cli_status(outcome) ==
  LET version == command_version(outcome)
  IN IF version # <<>> THEN [available |-> TRUE, version |-> version]
     ELSE [available |-> FALSE, version |-> <<>>]

PackageManagers == <<"npm", "bun", "yarn", "pnpm">>

\* package_manager_statuses where env[name] is the outcome of name's probe.
package_manager_statuses(env) ==
  [i \in 1..Len(PackageManagers) |->
     package_manager_status(PackageManagers[i], env[PackageManagers[i]])]

\* The outcomes the four managers are drawn from in the joint probe.
ManagerOutcomes ==
  { [kind |-> "spawn_failed"],
    [kind |-> "output", status |-> [kind |-> "exited", code |-> 1],
     stdout |-> <<"1", LF>>, stderr |-> <<>>],
    [kind |-> "output", status |-> [kind |-> "exited", code |-> 0],
     stdout |-> <<"1", LF>>, stderr |-> <<>>],
    [kind |-> "output", status |-> [kind |-> "exited", code |-> 0],
     stdout |-> <<>>, stderr |-> <<SP, "2">>] }

ManagerNames == { PackageManagers[i] : i \in 1..Len(PackageManagers) }

ProbeRequests ==
  [op : {"package_manager_status"}, name : ManagerNames, outcome : ProbeOutcomes]
    \cup [op : {"openspec_cli_status"}, outcome : ProbeOutcomes]
    \cup [op : {"package_manager_statuses"}, env : [ManagerNames -> ManagerOutcomes]]

PackageManagerStatus ==
  /\ pc = "called"
  /\ req.op = "package_manager_status"
  /\ reply' = package_manager_status(req.name, req.outcome)
  /\ pc' = "replied"
  /\ probes' = Append(probes, OneShot(req.name, req.outcome))
  /\ UNCHANGED << runstate, req >>

OpenspecCliStatus ==
  /\ pc = "called"
  /\ req.op = "openspec_cli_status"
  /\ reply' = openspec_cli_status(req.outcome)
  /\ pc' = "replied"
  /\ probes' = Append(probes, OneShot("openspec", req.outcome))
  /\ UNCHANGED << runstate, req >>

PackageManagerStatuses ==
  /\ pc = "called"
  /\ req.op = "package_manager_statuses"
  /\ reply' = package_manager_statuses(req.env)
  /\ pc' = "replied"
  /\ probes' = probes \o [i \in 1..Len(PackageManagers) |->
                            OneShot(PackageManagers[i], req.env[PackageManagers[i]])]
  /\ UNCHANGED << runstate, req >>

\* ------------------------------------------------------------- PureSpec
PureRequests ==
  BuildToolsArgRequests \cup ParseToolsRequests \cup DiscoverRequests
    \cup ProbeRequests

PureInit ==
  /\ Idle
  /\ prog = <<>>
  /\ pc = "called"
  /\ req \in PureRequests
  /\ reply = NoReply
  /\ probes = <<>>

PureNext ==
  \/ BuildToolsArg
  \/ ParseOpenspecTools
  \/ DiscoverProjectInfo
  \/ PackageManagerStatus
  \/ OpenspecCliStatus
  \/ PackageManagerStatuses

\* Each pure function applied once to an input drawn from its bounded domain.
PureSpec == PureInit /\ [][PureNext]_vars

\* ======================================================= exposed commands
\* Longest program of the child of an exposed streamed command.
MaxApiWrites == 1

\* From<DiscoveryError> for ProjectDiscoveryErrorPayload
DiscoveryPayload(error) ==
  CASE error.kind = "MissingPath" ->
         [kind |-> "Err", code |-> "path_not_found", message |-> "Path does not exist"]
    [] error.kind = "NotDirectory" ->
         [kind |-> "Err", code |-> "path_not_directory", message |-> "Path is not a directory"]
    [] error.kind = "GitUnavailable" ->
         [kind |-> "Err", code |-> "git_unavailable", message |-> "Git is not available"]
    [] error.kind = "NotGitWorkTree" ->
         [kind |-> "Err", code |-> "not_git_work_tree", message |-> "Path is not a git work tree"]
    [] error.kind = "RepoRootUnavailable" ->
         [kind |-> "Err", code |-> "repo_root_unavailable",
          message |-> "Could not resolve repository root"]
    [] error.kind = "Io" ->
         [kind |-> "Err", code |-> "io_error", message |-> "File system error"]

\* The message of CommandFailed: "{command} exited with status {status}",
\* followed by ": {stderr}" when stderr is not blank; kept as its parts.
CommandFailedMessage(error) ==
  [command |-> error.command, status |-> error.status,
   detail |-> IF Trim(error.stderr) # <<>> THEN <<error.stderr>> ELSE <<>>]

\* Variant: a missing package manager is reported as a missing CLI.
CommandPayloadOneUnavailable(error) ==
  CASE error.kind \in {"CliUnavailable", "PackageManagerUnavailable"} ->
         [kind |-> "Err", code |-> "openspec_unavailable",
          message |-> "OpenSpec CLI is not available"]
    [] error.kind = "UnsupportedPackageManager" ->
         [kind |-> "Err", code |-> "package_manager_unsupported",
          message |-> "Package manager is not supported"]
    [] error.kind = "MissingToolsSelection" ->
         [kind |-> "Err", code |-> "tools_missing", message |-> "Select at least one tool"]
    [] error.kind = "ToolsParseFailed" ->
         [kind |-> "Err", code |-> "tools_parse_failed",
          message |-> "Unable to parse the OpenSpec tools list"]
    [] error.kind = "CommandFailed" ->
         [kind |-> "Err", code |-> "command_failed", message |-> CommandFailedMessage(error)]
    [] error.kind = "Io" ->
         [kind |-> "Err", code |-> "io_error", message |-> "Command failed to run"]

\* From<OpenSpecCommandError> for OpenSpecCommandErrorPayload
CommandPayload(error) ==
  CASE error.kind = "CliUnavailable" ->
         [kind |-> "Err", code |-> "openspec_unavailable",
          message |-> "OpenSpec CLI is not available"]
    [] error.kind = "UnsupportedPackageManager" ->
         [kind |-> "Err", code |-> "package_manager_unsupported",
          message |-> "Package manager is not supported"]
    [] error.kind = "PackageManagerUnavailable" ->
         [kind |-> "Err", code |-> "package_manager_unavailable",
          message |-> "Package manager is not available"]
    [] error.kind = "MissingToolsSelection" ->
         [kind |-> "Err", code |-> "tools_missing", message |-> "Select at least one tool"]
    [] error.kind = "ToolsParseFailed" ->
         [kind |-> "Err", code |-> "tools_parse_failed",
          message |-> "Unable to parse the OpenSpec tools list"]
    [] error.kind = "CommandFailed" ->
         [kind |-> "Err", code |-> "command_failed", message |-> CommandFailedMessage(error)]
    [] error.kind = "Io" ->
         [kind |-> "Err", code |-> "io_error", message |-> "Command failed to run"]

\* Result::map_err(ProjectDiscoveryErrorPayload::from)
MapDiscoveryErr(r) == IF r.kind = "Ok" THEN r ELSE DiscoveryPayload(r)

\* Result::map_err(OpenSpecCommandErrorPayload::from)
MapCommandErr(r) == IF r.kind = "Ok" THEN r ELSE CommandPayload(r)

\* ------------------------------------------------------- discover_project
DiscoverProject ==
  /\ pc = "called"
  /\ req.op = "discover_project"
  /\ reply' = MapDiscoveryErr(discover_project_info(req.path, req.fs, req.git))
  /\ probes' = (IF KindAt(req.fs, req.path) = "dir"
                THEN Append(probes, OneShot("git", req.git))
                ELSE probes)
  /\ pc' = "replied"
  /\ UNCHANGED << runstate, req >>

\* --------------------------------------------------------- openspec_tools
\* What `openspec init --help` may print on either stream.
HelpOutputs == { <<>>, MARKER, HelpOneLine \o <<LF>>, HelpWrappedDot }

\* Command::output() of `openspec init --help`; a failure to start says
\* whether the executable was not found.
HelpOutcomes ==
  [kind : {"spawn_failed"}, error : {"not_found", "other"}]
    \cup [kind : {"output"}, status : ExitStatuses, stdout : HelpOutputs,
          stderr : {<<>>, HelpOneLine}]

openspec_tools(outcome) ==
  IF outcome.kind = "spawn_failed"
  THEN CommandPayload(IF outcome.error = "not_found" THEN [kind |-> "CliUnavailable"]
                      ELSE [kind |-> "Io"])
  ELSE IF ~Success(outcome.status) THEN CommandPayload([kind |-> "CliUnavailable"])
  ELSE LET combined == FromUtf8Lossy(outcome.stdout) \o <<LF>>
                         \o FromUtf8Lossy(outcome.stderr)
       IN MapCommandErr(parse_openspec_tools(combined))

OpenspecTools ==
  /\ pc = "called"
  /\ req.op = "openspec_tools"
  /\ reply' = openspec_tools(req.outcome)
  /\ probes' = Append(probes, OneShot("openspec", req.outcome))
  /\ pc' = "replied"
  /\ UNCHANGED << runstate, req >>

\* --------------------------------------------------- install_openspec_cli
PACKAGE == "@fission-ai/openspec@latest"

\* The match on the package manager's name: Some((command, args)), or None
\* for the `_` arm; as a sequence of length <= 1.
InstallPlan(package_manager) ==
  CASE package_manager = "npm" ->
         << [command |-> "npm", args |-> <<"install", "-g", PACKAGE>>] >>
    [] package_manager = "bun" ->
         << [command |-> "bun", args |-> <<"add", "-g", PACKAGE>>] >>
    [] package_manager = "yarn" ->
         << [command |-> "yarn", args |-> <<"global", "add", PACKAGE>>] >>
    [] package_manager = "pnpm" ->
         << [command |-> "pnpm", args |-> <<"add", "-g", PACKAGE>>] >>
    [] OTHER -> <<>>

\* Variant: the probe's answer is not looked at.
ProbePassedAlways(manager) == TRUE

\* `if !status.installed { return Err(PackageManagerUnavailable) }`
ProbePassed(manager) == manager.installed

\* Up to the call of run_command_with_events: the version probe of the
\* requested name, then the match on the name.
InstallOpenspecCli ==
  /\ pc = "called"
  /\ req.op = "install_openspec_cli"
  /\ probes' = Append(probes, OneShot(req.package_manager, req.outcome))
  /\ LET manager == package_manager_status(req.package_manager, req.outcome)
         plan == InstallPlan(req.package_manager)
     IN IF ~ProbePassed(manager)
        THEN /\ reply' = CommandPayload([kind |-> "PackageManagerUnavailable"])
             /\ pc' = "replied"
             /\ UNCHANGED call
        ELSE IF plan = <<>>
        THEN /\ reply' = CommandPayload([kind |-> "UnsupportedPackageManager"])
             /\ pc' = "replied"
             /\ UNCHANGED call
        ELSE /\ call' = [operation |-> "install", command |-> plan[1].command]
             /\ pc' = "spawn"
             /\ UNCHANGED reply
  /\ UNCHANGED << prog, ip, childpc, exitStatus, status, pipe, closed, drain, line,
                  stored, offered, rejected, joined, result, req >>

\* ---------------------------------------------------------- openspec_init
\* Up to the call of run_command_with_events: build_tools_arg, then the
\* arguments of `openspec init`.
OpenspecInit ==
  /\ pc = "called"
  /\ req.op = "openspec_init"
  /\ LET tools_arg == build_tools_arg(req.tools_mode, req.tools)
     IN IF tools_arg.kind # "Ok"
        THEN /\ reply' = CommandPayload(tools_arg)
             /\ pc' = "replied"
             /\ UNCHANGED call
        ELSE /\ call' = [operation |-> "init", command |-> "openspec"]
             /\ pc' = "spawn"
             /\ UNCHANGED reply
  /\ UNCHANGED << prog, ip, childpc, exitStatus, status, pipe, closed, drain, line,
                  stored, offered, rejected, joined, result, req, probes >>

StreamedOps == {"install_openspec_cli", "openspec_init"}

\* run_command_with_events(..).map_err(OpenSpecCommandErrorPayload::from)
Return ==
  /\ pc = "returned"
  /\ req.op \in StreamedOps
  /\ reply' = MapCommandErr(result)
  /\ pc' = "replied"
  /\ UNCHANGED << runstate, req, probes >>

\* ----------------------------------------------------------------- ApiSpec
\* A name the match on the package manager does not know.
OtherManagers == {"cargo"}

InitTools == { <<>>, << <<SP>> >>, << <<"a">> >> }

ApiRequests ==
  { [r EXCEPT !.op = "discover_project"] : r \in DiscoverRequests }
    \cup [op : {"openspec_tools"}, outcome : HelpOutcomes]
    \cup { r \in ProbeRequests : r.op # "package_manager_status" }
    \cup [op : {"install_openspec_cli"},
          package_manager : ManagerNames \cup OtherManagers,
          outcome : ManagerOutcomes]
    \cup [op : {"openspec_init"}, path : {ROOT}, tools_mode : ToolsModes,
          tools : InitTools]

ApiInit ==
  /\ Idle
  /\ req \in ApiRequests
  /\ prog \in (IF req.op \in StreamedOps THEN Programs(MaxApiWrites) ELSE {<<>>})
  /\ pc = "called"
  /\ reply = NoReply
  /\ probes = <<>>

ApiNext ==
  \/ DiscoverProject
  \/ OpenspecTools
  \/ OpenspecCliStatus
  \/ PackageManagerStatuses
  \/ InstallOpenspecCli
  \/ OpenspecInit
  \/ Return
  \/ Next

\* One call of an exposed command, from the request to the reply.
ApiSpec == ApiInit /\ [][ApiNext]_vars

\* ================================================================ claims
\* The text of the lines of a sequence of events.
EventLines(evs) == [i \in 1..Len(evs) |-> evs[i].line]

IsPrefix(a, b) == Len(a) <= Len(b) /\ a = SubSeq(b, 1, Len(a))

\* Every raw line the child's program writes to s.
AllWritten(s) == WrittenTo(prog, s)

\* The child's lines without their line terminator ("\n" or "\r\n").
OriginalLines(s) == [i \in 1..Len(AllWritten(s)) |-> StripCR(AllWritten(s)[i])]

Returned == pc = "returned"

\* The call returned a Run Result or a CommandFailed error.
ReturnedOutcome == Returned /\ result.kind \in {"Ok", "CommandFailed"}

\* C1: within one stream, the buffer holds the lines the drain has read, in
\* the order the child wrote them, each once; the events offered to the
\* listener carry the same lines in the same order.
C1_StreamOrder ==
  \A s \in Streams :
    /\ stored[s] = Decoded(Consumed(s))
    /\ IsPrefix(EventLines(offered[s]), stored[s])

\* C1 witness: the call returned with two different lines of one stream
\* accumulated and offered.
C1_Witness ==
  /\ ReturnedOutcome
  /\ \E s \in Streams :
       /\ Len(stored[s]) = 2
       /\ stored[s][1] # stored[s][2]
       /\ Len(offered[s]) = 2

\* C2: the returned texts, split back into lines, reproduce exactly the
\* lines the child wrote to each stream, in order, for every line content.
C2_SplitReproducesLines ==
  /\ (Returned /\ result.kind = "Ok"
        => Lines(result.stdout) = OriginalLines("stdout"))
  /\ (ReturnedOutcome => Lines(result.stderr) = OriginalLines("stderr"))

\* The next write goes to a full pipe that no drain thread reads.
ChildBlockedUnread ==
  /\ childpc # "none"
  /\ ip <= Len(prog)
  /\ Len(pipe[prog[ip].stream]) >= PipeCap
  /\ ~DrainRunnable(prog[ip].stream)

\* C3: with bounded pipes the child is never blocked on a full stream that
\* nobody reads, and under fair scheduling the call eventually returns.
C3_NoDeadlockAndReturns == [](~ChildBlockedUnread) /\ <>Returned

\* C3 witness: the child is blocked on a full stderr pipe while the stdout
\* drain sits on an empty pipe waiting for input.
C3_Witness ==
  /\ childpc = "running"
  /\ ip <= Len(prog)
  /\ prog[ip].stream = "stderr"
  /\ Len(pipe["stderr"]) = PipeCap
  /\ pipe["stdout"] = <<>>
  /\ drain["stdout"] = "read"

\* C4: the buffers are read only when both drains have finished, both
\* threads are joined and the child has exited; the returned texts are the
\* complete buffers.
C4_BuffersReadComplete ==
  /\ (pc = "collect" \/ ReturnedOutcome
        => /\ childpc = "exited"
           /\ \A s \in Streams :
                /\ drain[s] = "done"
                /\ joined[s]
                /\ pipe[s] = <<>>
                /\ stored[s] = Decoded(AllWritten(s)))
  /\ (ReturnedOutcome => result.stderr = Join(stored["stderr"], LF))
  /\ (Returned /\ result.kind = "Ok"
        => result.stdout = Join(stored["stdout"], LF))

\* C4 witness: a Run Result carrying text of both streams.
C4_Witness ==
  /\ Returned
  /\ result.kind = "Ok"
  /\ result.stdout # <<>>
  /\ result.stderr # <<>>

\* C5 as stated: the wait-for-exit step is taken only with both drain
\* threads joined.
C5_JoinedBeforeWait ==
  [][pc = "wait" /\ pc' # "wait" => \A s \in Streams : joined[s]]_vars

\* C5 amended: the wait-for-exit step comes first, with no drain thread
\* joined; a thread is joined only after the wait returned the exit status
\* and the thread has finished; both are joined before the buffers are read.
C5_WaitThenJoin ==
  /\ (pc = "wait" => \A s \in Streams : ~joined[s])
  /\ \A s \in Streams :
       joined[s] => /\ status # NoStatus
                    /\ childpc = "exited"
                    /\ drain[s] = "done"
  /\ (pc = "collect" \/ ReturnedOutcome => \A s \in Streams : joined[s])

\* C5 witness: the wait has returned the status, stdout is joined, stderr
\* not yet.
C5_Witness ==
  /\ pc = "join_stderr"
  /\ status # NoStatus
  /\ joined["stdout"]
  /\ ~joined["stderr"]
  /\ stored["stdout"] # <<>>

\* C6: once the call has returned, no drain thread is still running with
\* its clone of the window.
C6_NoDrainAfterReturn ==
  Returned => \A s \in Streams : drain[s] \in {"none", "done"}

\* C7: when child.wait() reports a non-zero exit code c the call returns
\* CommandFailed with status c and the complete accumulated stderr text; when
\* it reports code 0 the call returns a Run Result with status 0 and the
\* accumulated stdout and stderr.  The code reported is the child's own.
C7_ExitCodeDecidesOutcome ==
  Returned /\ status.kind = "exited"
    => /\ status = exitStatus
       /\ \A s \in Streams : stored[s] = Decoded(AllWritten(s))
       /\ IF status.code # 0
          THEN result = [kind |-> "CommandFailed", command |-> call.command,
                         status |-> status.code,
                         stderr |-> Join(stored["stderr"], LF)]
          ELSE result = [kind |-> "Ok", status |-> 0,
                         stdout |-> Join(stored["stdout"], LF),
                         stderr |-> Join(stored["stderr"], LF)]

\* C7 witness: CommandFailed with exit code 2 and two stderr lines.
C7_Witness ==
  /\ Returned
  /\ result.kind = "CommandFailed"
  /\ result.status = 2
  /\ Len(stored["stderr"]) = 2
  /\ result.stderr # <<>>

\* C8: a status without exit code is recorded as -1 and the outcome is
\* CommandFailed with status -1; success or failure follows the success
\* flag of the status.
C8_NoCodeIsMinusOne ==
  Returned /\ status # NoStatus
    => /\ (result.kind = "Ok" <=> Success(status))
       /\ (result.kind = "CommandFailed" <=> ~Success(status))
       /\ (Code(status) = <<>>
             => IF Success(status)
                THEN result.kind = "Ok" /\ result.status = -1
                ELSE result.kind = "CommandFailed" /\ result.status = -1)

\* C8 witness: the child was killed by a signal and the call returned
\* CommandFailed with status -1.
C8_Witness ==
  /\ Returned
  /\ status.kind = "signaled"
  /\ result.kind = "CommandFailed"
  /\ result.status = -1

\* The outcome of the run in which every emit is accepted: it depends on
\* the child's writes and exit status only.
OutcomeAllAccepted ==
  Outcome(exitStatus, call.command,
          Join(Decoded(AllWritten("stdout")), LF),
          Join(Decoded(AllWritten("stderr")), LF))

\* C9: whichever emits the listener rejects, each drain runs to
\* end-of-input, every line read is in its buffer and was offered, and the
\* outcome is the one of the run where every emit is accepted (an Io error
\* when child.wait() failed).
C9_BestEffortDelivery ==
  /\ \A s \in Streams :
       drain[s] = "done"
         => /\ closed[s]
            /\ pipe[s] = <<>>
            /\ stored[s] = Decoded(AllWritten(s))
            /\ Len(offered[s]) = Len(stored[s])
  /\ (Returned /\ childpc = "exited"
        => result = IF status = NoStatus
                    THEN [kind |-> "Io"]
                    ELSE OutcomeAllAccepted)

\* C9 witness: the call returned an outcome after the listener rejected an
\* event.
C9_Witness ==
  /\ ReturnedOutcome
  /\ rejected
  /\ \E s \in Streams : Len(stored[s]) = 2

\* C10: a drain that reached end-of-input has accumulated and forwarded one
\* line for every line the child wrote to its stream, malformed ones too.
C10_MalformedLineKept ==
  \A s \in Streams :
    drain[s] = "done"
      => /\ Len(stored[s]) = Len(AllWritten(s))
         /\ Len(offered[s]) = Len(AllWritten(s))

\* C12: when the call returns CommandFailed, every line the child wrote to
\* either stream has been offered to the listener.
C12_AllLinesOfferedBeforeFailure ==
  Returned /\ result.kind = "CommandFailed"
    => \A s \in Streams :
         /\ Len(offered[s]) = Len(AllWritten(s))
         /\ EventLines(offered[s]) = OriginalLines(s)

\* The executables run_command_with_events is given.
StreamedCommands == {"openspec", "npm", "bun", "yarn", "pnpm"}

\* C14: a spawn failure is classified by kind and executable: not-found
\* gives CliUnavailable for "openspec" and PackageManagerUnavailable for any
\* other executable, every other failure gives Io; no drain thread is
\* started, nothing is accumulated and no event is emitted.
C14_SpawnFailureClassified ==
  /\ \A c \in StreamedCommands :
       /\ SpawnError("not_found", c) =
            (IF c = "openspec"
             THEN [kind |-> "CliUnavailable"]
             ELSE [kind |-> "PackageManagerUnavailable"])
       /\ SpawnError("other", c) = [kind |-> "Io"]
  /\ (Returned /\ childpc = "none"
        => /\ result \in { [kind |-> "Io"],
                           IF call.command = "openspec"
                           THEN [kind |-> "CliUnavailable"]
                           ELSE [kind |-> "PackageManagerUnavailable"] }
           /\ \A s \in Streams :
                /\ drain[s] = "none"
                /\ stored[s] = <<>>
                /\ offered[s] = <<>>)

\* C14 witness: the spawn of "openspec" failed with not-found.
C14_Witness ==
  /\ Returned
  /\ childpc = "none"
  /\ call.command = "openspec"
  /\ result = [kind |-> "CliUnavailable"]

\* C19: in each drain thread the line is stored before it is offered: the
\* offered lines are a prefix of the buffer, which is longer by at most one
\* line (exactly while the thread is between push and emit); the lines read
\* from a stream are stored in that stream's buffer only and tagged with
\* that stream's name.
C19_StoredBeforeOffered ==
  \A s \in Streams :
    /\ IsPrefix(EventLines(offered[s]), stored[s])
    /\ Len(stored[s]) - Len(offered[s]) = (IF drain[s] = "emit" THEN 1 ELSE 0)
    /\ stored[s] = Decoded(Consumed(s))
    /\ \A i \in 1..Len(offered[s]) :
         /\ offered[s][i].stream = s
         /\ offered[s][i].operation = call.operation

\* C19 witness: the stderr thread has stored a line it has not offered yet,
\* while a stdout line was already offered.
C19_Witness ==
  /\ drain["stderr"] = "emit"
  /\ Len(stored["stderr"]) = Len(offered["stderr"]) + 1
  /\ Len(offered["stdout"]) = 1
  /\ stored["stdout"] # stored["stderr"]

\* The part of a text between its first and its last non-whitespace character.
Core(s) ==
  LET ink == { i \in 1..Len(s) : ~IsWhitespace(s[i]) }
  IN IF ink = {} THEN <<>>
     ELSE SubSeq(s, CHOOSE i \in ink : \A j \in ink : i <= j,
                    CHOOSE i \in ink : \A j \in ink : j <= i)

Blank(s) == \A i \in 1..Len(s) : IsWhitespace(s[i])

\* C15: build_tools_arg gives "all" for All and "none" for None whatever the
\* list; for Custom it fails with MissingToolsSelection exactly when every
\* name is blank, and otherwise gives the non-blank names, each without its
\* surrounding whitespace, joined with commas in input order.
C15_BuildToolsArg ==
  pc = "replied" /\ req.op = "build_tools_arg"
    => LET kept == SelectSeq(req.tools, LAMBDA x : ~Blank(x))
       IN CASE req.mode = "All" ->
                 reply = [kind |-> "Ok", value |-> <<"a", "l", "l">>]
            [] req.mode = "None" ->
                 reply = [kind |-> "Ok", value |-> <<"n", "o", "n", "e">>]
            [] req.mode = "Custom" ->
                 IF \A i \in 1..Len(req.tools) : Blank(req.tools[i])
                 THEN reply = [kind |-> "MissingToolsSelection"]
                 ELSE reply = [kind |-> "Ok",
                               value |-> Join([i \in 1..Len(kept) |-> Core(kept[i])], ",")]

\* C15 witness: Custom with a padded name and a blank one gave the padded
\* name alone, trimmed.
C15_Witness ==
  /\ pc = "replied"
  /\ req.op = "build_tools_arg"
  /\ req.mode = "Custom"
  /\ req.tools = << <<SP, "b", SP>>, <<SP>> >>
  /\ reply = [kind |-> "Ok", value |-> <<"b">>]

\* ---- the procedure of C16, stated over positions instead of loops
\* p occurs in s at position k.
OccursAt(s, p, k) == k + Len(p) - 1 <= Len(s) /\ SubSeq(s, k, k + Len(p) - 1) = p

Least(S) == CHOOSE x \in S : \A y \in S : x <= y

Greatest(S) == CHOOSE x \in S : \A y \in S : y <= x

\* A line that closes the list: blank, or beginning (after its indentation)
\* with a bullet marker or a section header.
ClosesList(l) ==
  \/ Blank(l)
  \/ \E k \in 1..Len(l) :
       /\ \A j \in 1..(k - 1) : IsWhitespace(l[j])
       /\ OccursAt(l, <<"-">>, k) \/ OccursAt(l, OPTIONS, k) \/ OccursAt(l, USAGE, k)

\* The n-th (from 0) of the pieces the commas of s delimit.
Piece(s, n) ==
  LET at == { i \in 1..Len(s) :
                s[i] # "," /\ Cardinality({ j \in 1..i : s[j] = "," }) = n }
  IN IF at = {} THEN <<>> ELSE SubSeq(s, Least(at), Greatest(at))

Pieces(s) ==
  [n \in 1..(Cardinality({ j \in 1..Len(s) : s[j] = "," }) + 1) |-> Piece(s, n - 1)]

WithoutOnePeriod(e) ==
  IF Len(e) > 0 /\ e[Len(e)] = "." THEN SubSeq(e, 1, Len(e) - 1) ELSE e

WithoutPeriods(e) ==
  LET solid == { i \in 1..Len(e) : e[i] # "." }
  IN IF solid = {} THEN <<>> ELSE SubSeq(e, 1, Greatest(solid))

\* The tool list of a help text; allPeriods tells whether every trailing
\* period of an entry is stripped, or one.
ToolList(text, allPeriods) ==
  LET ls == Lines(text)
      marked == { i \in 1..Len(ls) : \E k \in 1..Len(ls[i]) : OccursAt(ls[i], MARKER, k) }
  IN IF marked = {} THEN [kind |-> "ToolsParseFailed"]
     ELSE LET m == Least(marked)
              k == Least({ j \in 1..Len(ls[m]) : OccursAt(ls[m], MARKER, j) })
              first == Core(SubSeq(ls[m], k + Len(MARKER), Len(ls[m])))
              last == Greatest({ j \in m..Len(ls) :
                                   \A i \in (m + 1)..j : ~ClosesList(ls[i]) })
              fragments == (IF first = <<>> THEN <<>> ELSE <<first>>)
                             \o [i \in 1..(last - m) |-> Core(ls[m + i])]
              entries == Pieces(Join(fragments, SP))
              stripped == [i \in 1..Len(entries) |->
                             IF allPeriods THEN WithoutPeriods(Core(entries[i]))
                             ELSE WithoutOnePeriod(Core(entries[i]))]
              tools == SelectSeq(stripped, LAMBDA e : Len(e) > 0)
          IN IF Len(tools) = 0 THEN [kind |-> "ToolsParseFailed"]
             ELSE [kind |-> "Ok", value |-> tools]

\* C16 as stated: parse_openspec_tools gives, for every help text, the list
\* of the procedure that strips one trailing period from each entry, and
\* ToolsParseFailed exactly when there is no marker or no entry is left.
C16_StripsOnePeriod ==
  pc = "replied" /\ req.op = "parse_openspec_tools"
    => reply = ToolList(req.text, FALSE)

\* C16 amended: parse_openspec_tools gives, for every help text, the list of
\* the procedure that strips every trailing period from each entry, and
\* ToolsParseFailed exactly when there is no marker or no entry is left; the
\* list a, b, c on one line and wrapped over two lines, with or without a
\* final period, gives the same result.
C16_StripsEveryPeriod ==
  pc = "replied" /\ req.op = "parse_openspec_tools"
    => /\ reply = ToolList(req.text, TRUE)
       /\ req.text \in HelpExamples
            => reply = [kind |-> "Ok", value |-> << <<"a">>, <<"b">>, <<"c">> >>]

\* C16 witness: the wrapped list with a final period was parsed.
C16_Witness ==
  /\ pc = "replied"
  /\ req.op = "parse_openspec_tools"
  /\ req.text = HelpWrappedDot
  /\ reply = [kind |-> "Ok", value |-> << <<"a">>, <<"b">>, <<"c">> >>]

\* The spellings used for the entries of the file trees: the entry each
\* names, and whether the spelling (a final "/" or "/.") asks for a directory.
Spellings ==
  { [text |-> ROOT, entry |-> ROOT, asDir |-> FALSE],
    [text |-> <<SLASH, "r", SLASH>>, entry |-> ROOT, asDir |-> TRUE],
    [text |-> <<SLASH, "r", SLASH, ".">>, entry |-> ROOT, asDir |-> TRUE],
    [text |-> SUB, entry |-> SUB, asDir |-> FALSE],
    [text |-> <<SLASH, "r", SLASH, "s", SLASH, ".">>, entry |-> SUB, asDir |-> TRUE],
    [text |-> <<SLASH, "r", SLASH, SLASH, "s">>, entry |-> SUB, asDir |-> FALSE],
    [text |-> ROOT \o <<SLASH>> \o OPENSPEC, entry |-> ROOT \o <<SLASH>> \o OPENSPEC,
     asDir |-> FALSE],
    [text |-> ROOT \o <<SLASH>> \o OPENSPEC \o <<SLASH>>,
     entry |-> ROOT \o <<SLASH>> \o OPENSPEC, asDir |-> TRUE],
    [text |-> <<SLASH, "r", SLASH, ".", SLASH>> \o OPENSPEC,
     entry |-> ROOT \o <<SLASH>> \o OPENSPEC, asDir |-> FALSE],
    [text |-> SUB \o <<SLASH>> \o OPENSPEC, entry |-> SUB \o <<SLASH>> \o OPENSPEC,
     asDir |-> FALSE] }

\* What a spelled path is found to be in a file tree.
Found(fs, text) ==
  LET sp == CHOOSE x \in Spellings : x.text = text
  IN IF sp.asDir /\ fs[sp.entry] # "dir" THEN "missing" ELSE fs[sp.entry]

\* C17: discover_project_info answers by the first failing check, in the
\* order: path missing (MissingPath), path not a directory (NotDirectory),
\* git not startable (GitUnavailable), git exit not zero (NotGitWorkTree),
\* nothing but whitespace printed (RepoRootUnavailable); when all pass it
\* succeeds with the root git printed, not the queried path, and with
\* whether "openspec" directly under that root is a directory.
C17_FirstFailingCheck ==
  pc = "replied" /\ req.op = "discover_project_info"
    => LET queried == Found(req.fs, req.path)
           printed == Core(req.git.stdout)
       IN IF queried = "missing" THEN reply = [kind |-> "MissingPath"]
          ELSE IF queried = "file" THEN reply = [kind |-> "NotDirectory"]
          ELSE IF req.git.kind = "spawn_failed" THEN reply = [kind |-> "GitUnavailable"]
          ELSE IF req.git.status # [kind |-> "exited", code |-> 0]
               THEN reply = [kind |-> "NotGitWorkTree"]
          ELSE IF Blank(req.git.stdout) THEN reply = [kind |-> "RepoRootUnavailable"]
          ELSE /\ reply.kind = "Ok"
               /\ reply.repo_path = printed
               /\ reply.openspec_present
                    <=> Found(req.fs, printed \o <<SLASH>> \o OPENSPEC) = "dir"

\* C17 witness: discovery from the subdirectory, which has its own "openspec"
\* directory, succeeded with the root, under which there is none.
C17_Witness ==
  /\ pc = "replied"
  /\ req.op = "discover_project_info"
  /\ req.path = SUB
  /\ req.fs[PathJoin(SUB, OPENSPEC)] = "dir"
  /\ req.fs[PathJoin(ROOT, OPENSPEC)] = "missing"
  /\ reply = [kind |-> "Ok", repo_path |-> ROOT, repo_name |-> <<"r">>,
              openspec_present |-> FALSE]

\* What a probe must report for an outcome: nothing when the command did not
\* start or did not exit with 0, else the first non-blank of stdout and
\* stderr without its surrounding whitespace, else the empty text.
Reported(outcome) ==
  IF outcome.kind = "spawn_failed" THEN <<>>
  ELSE IF outcome.status # [kind |-> "exited", code |-> 0] THEN <<>>
  ELSE IF ~Blank(outcome.stdout) THEN << Core(outcome.stdout) >>
  ELSE IF ~Blank(outcome.stderr) THEN << Core(outcome.stderr) >>
  ELSE << <<>> >>

\* C18: the version probe always answers with a status, never an error: a
\* spawn failure or a non-zero exit gives installed/available false and no
\* version; exit 0 gives true with the trimmed stdout if not empty, else the
\* trimmed stderr if not empty, else the empty text. package_manager_statuses
\* gives four entries, named npm, bun, yarn, pnpm in that order, each the
\* status of its own probe.
C18_VersionProbe ==
  pc = "replied" =>
    /\ req.op = "package_manager_status"
         => reply = [name |-> req.name,
                     installed |-> Reported(req.outcome) # <<>>,
                     version |-> Reported(req.outcome)]
    /\ req.op = "openspec_cli_status"
         => reply = [available |-> Reported(req.outcome) # <<>>,
                     version |-> Reported(req.outcome)]
    /\ req.op = "package_manager_statuses"
         => /\ Len(reply) = 4
            /\ [i \in 1..4 |-> reply[i].name] = <<"npm", "bun", "yarn", "pnpm">>
            /\ \A i \in 1..4 :
                 /\ reply[i].version = Reported(req.env[reply[i].name])
                 /\ reply[i].installed <=> reply[i].version # <<>>

\* C18 witness: a probe that exited with 0 and printed only on stderr was
\* reported installed with that text.
C18_Witness ==
  /\ pc = "replied"
  /\ req.op = "package_manager_status"
  /\ req.outcome.kind = "output"
  /\ req.outcome.stdout = <<SP, LF>>
  /\ req.outcome.stderr = <<SP, "2">>
  /\ reply = [name |-> req.name, installed |-> TRUE, version |-> << <<"2">> >>]

SupportedManagers == {"npm", "bun", "yarn", "pnpm"}

\* No process has been started and no event offered.
NothingStarted ==
  /\ childpc = "none"
  /\ \A i \in 1..Len(probes) : ~probes[i].started
  /\ \A s \in Streams : offered[s] = <<>>

\* C11 as stated: for a package manager name outside npm, bun, yarn, pnpm,
\* install_openspec_cli starts no process, not even the version probe of that
\* name, offers no event, and answers package_manager_unsupported.
C11_UnsupportedFailsFirst ==
  req.op = "install_openspec_cli" /\ req.package_manager \notin SupportedManagers
    => /\ NothingStarted
       /\ pc = "replied" => reply.kind = "Err" /\ reply.code = "package_manager_unsupported"

\* The codes each fallible exposed command lists.
ListedCodes ==
  [discover_project |->
     {"path_not_found", "path_not_directory", "git_unavailable", "not_git_work_tree",
      "repo_root_unavailable", "io_error"},
   openspec_tools |-> {"openspec_unavailable", "tools_parse_failed", "io_error"},
   install_openspec_cli |->
     {"package_manager_unavailable", "package_manager_unsupported", "command_failed",
      "io_error"},
   openspec_init |-> {"tools_missing", "command_failed", "openspec_unavailable", "io_error"}]

\* C13: a call of an exposed command has no outcome until it replies, its
\* reply is a result or one error payload whose code is among the codes
\* listed for that command, and the reply, once given, never changes.
C13_OneListedOutcome ==
  /\ [](/\ pc # "replied" => reply = NoReply
        /\ pc = "replied" /\ req.op \in DOMAIN ListedCodes
             => \/ reply.kind = "Ok"
                \/ reply.kind = "Err" /\ reply.code \in ListedCodes[req.op])
  /\ [][pc = "replied" => pc' = "replied" /\ reply' = reply]_vars

\* C13 witness: an install whose command was not found at spawn time answered
\* package_manager_unavailable.
C13_Witness ==
  /\ pc = "replied"
  /\ req.op = "install_openspec_cli"
  /\ result = [kind |-> "PackageManagerUnavailable"]
  /\ reply.kind = "Err"
  /\ reply.code = "package_manager_unavailable"

\* The streamed command has been requested from run_command_with_events.
RunEntered == call # NoCall

\* C20: install_openspec_cli enters the run of the install command, and so
\* has a child or an "install" event, only after the version probe of the
\* requested name reported it installed and the name is one of npm, bun,
\* yarn, pnpm; when the probe fails it answers package_manager_unavailable
\* with no child and no event. openspec_init enters the run of "openspec",
\* and so has a child or an "init" event, only when build_tools_arg
\* succeeded; on tools_missing there is no process and no event.
C20_GatedByPreChecks ==
  /\ childpc # "none" \/ (\E s \in Streams : offered[s] # <<>>) => RunEntered
  /\ req.op = "install_openspec_cli" =>
       /\ RunEntered =>
            /\ Reported(req.outcome) # <<>>
            /\ probes = << [command |-> req.package_manager, started |-> TRUE] >>
            /\ req.package_manager \in SupportedManagers
            /\ call = [operation |-> "install", command |-> req.package_manager]
            /\ \A s \in Streams : \A i \in 1..Len(offered[s]) :
                 offered[s][i].operation = "install"
       /\ Reported(req.outcome) = <<>> /\ pc = "replied" =>
            /\ reply.kind = "Err" /\ reply.code = "package_manager_unavailable"
            /\ ~RunEntered
  /\ req.op = "openspec_init" =>
       LET missing == req.tools_mode = "Custom"
                        /\ \A i \in 1..Len(req.tools) : Blank(req.tools[i])
       IN /\ RunEntered =>
               /\ ~missing
               /\ call = [operation |-> "init", command |-> "openspec"]
               /\ \A s \in Streams : \A i \in 1..Len(offered[s]) :
                    offered[s][i].operation = "init"
          /\ missing /\ pc = "replied" =>
               /\ reply.kind = "Err" /\ reply.code = "tools_missing"
               /\ ~RunEntered
               /\ probes = <<>>

\* C20 witness: an install with pnpm, probed installed, has offered an
\* "install" event and replied.
C20_Witness ==
  /\ pc = "replied"
  /\ req.op = "install_openspec_cli"
  /\ req.package_manager = "pnpm"
  /\ probes = << [command |-> "pnpm", started |-> TRUE] >>
  /\ Len(offered["stdout"]) = 1
  /\ offered["stdout"][1].operation = "install"
  /\ reply.kind = "Ok"

====
